---- MODULE Spec2Model ----
(***************************************************************************)
(* Model of the Kafka consumer notebook step_3_consumer_app.ipynb: the     *)
(* consumption loop (poll / decode / append / event_notification / commit  *)
(* / close) and the rolling-mean threshold alert of event_notification.    *)
(*                                                                         *)
(* PM 2.5 values are floats in the program; here they are integers in      *)
(* thousandths (17994 stands for 17.994).  Every value of the input set is *)
(* a multiple of 3, so the mean of three of them is again a whole number   *)
(* of thousandths and the division below is exact.                         *)
(***************************************************************************)
EXTENDS Integers, Sequences, FiniteSets, TLC

VARIABLES
    df,        \* the table of readings: rows [lat, lon, value, day, boxId]
    out,       \* the lines printed by event_notification, in order
    stderr,    \* the lines written to sys.stderr, in order
    msg,       \* what the last consumer.poll returned
    pc,        \* where the loop stands: poll, decode, notify, commit, finally, done
    raised,    \* the exception raised in the try body, "none" if none
    pm_value,  \* event_notification's pm_value of its last call, NaN if never bound
    polls,     \* polls that returned a message or an error event
    commits,   \* calls of consumer.commit()
    closes,    \* calls of consumer.close()
    sigints    \* KeyboardInterrupts delivered

vars == <<df, out, stderr, msg, pc, raised, pm_value, polls, commits, closes, sigints>>

(***************************************************************************)
(* Bounds of the model.                                                    *)
(***************************************************************************)
\* Number of polls that return something before the source falls silent.
MaxPolls == 4
\* Number of KeyboardInterrupt signals the user sends.
MaxInterrupts == 1
\* The same as MaxPolls, for the specification with fairness (LiveSpec).
LivePolls == 2

(***************************************************************************)
(* Program constants.                                                      *)
(***************************************************************************)
pm_threshold == 20
\* window of df.groupby(...).rolling(3)
window == 3
\* float('nan'): the value float(key) yields for the key "nan".  PM values
\* are never negative, so -1 is free to stand for it; every use tests for it
\* before doing arithmetic.
NaN == -1

(***************************************************************************)
(* The messages the stream can deliver.  A message value is JSON text; it  *)
(* is modelled by what json.loads makes of it: json = FALSE when the text  *)
(* does not parse, else the mapping as its (key, list) pairs in order.     *)
(***************************************************************************)
Json(entries) == [json |-> TRUE, entries |-> entries]

NotJson == [json |-> FALSE, entries |-> <<>>]

\* {"<value>": [lat, lon, day, boxId]}
Reading(key, lat, lon, day, boxId) == Json(<< <<key, <<lat, lon, day, boxId>> >> >>)

WellFormed ==
    { Reading("17.994", 1, 1, 1, "a"),
      Reading("24.012", 1, 1, 2, "a"),
      Reading("nan",    1, 1, 2, "a"),
      Reading("17.994", 1, 1, 2, "b"),
      Reading("24.012", 1, 2, 1, "a"),
      Reading("24.012", 2, 1, 2, "b") }

Malformed ==
    { NotJson,
      Json(<<>>),
      Json(<< <<"abc", <<1, 1, 1, "a">> >> >>),
      Json(<< <<"24.012", <<1, 1, 1>> >> >>),
      Json(<< <<"abc", <<1, 1, 1>> >> >>),
      Json(<< <<"24.012", <<>> >> >>) }

\* A mapping with two keys: only the first is looked at.
TwoKeys ==
    { Json(<< <<"24.012", <<1, 1, 2, "b">> >>, <<"17.994", <<2, 1, 1, "a">> >> >>) }

Payloads == WellFormed \cup Malformed \cup TwoKeys

\* msg.error().code()
TransientCodes == {"_PARTITION_EOF", "UNKNOWN_TOPIC_OR_PART"}

FatalCodes == {"_ALL_BROKERS_DOWN"}

NoMsg == [error |-> "", value |-> NotJson]

(***************************************************************************)
(* float(key)                                                              *)
(***************************************************************************)
IsNumeric(key) == key \in {"17.994", "24.012", "nan"}

float(key) ==
    CASE key = "17.994" -> 17994
      [] key = "24.012" -> 24012
      [] key = "nan"    -> NaN

(***************************************************************************)
(* event_notification: the rolling average table.                          *)
(***************************************************************************)
\* the grouping key of df.groupby(['lat','lon'])
GroupKey(row) == <<row.lat, row.lon>>

GroupKeys(d) == {GroupKey(d[i]) : i \in DOMAIN d}

\* groupby sorts the groups by key: by lat, then by lon
KeyBefore(a, b) == a[1] < b[1] \/ (a[1] = b[1] /\ a[2] < b[2])

RECURSIVE SortedKeys(_)
SortedKeys(S) ==
    IF S = {} THEN <<>>
    ELSE LET first == CHOOSE a \in S : \A b \in S \ {a} : KeyBefore(a, b)
         IN  <<first>> \o SortedKeys(S \ {first})

\* variant: a group holds only the rows that carry the newest row's boxId
GroupRows_sameBox(d, k) ==
    SelectSeq([i \in 1..Len(d) |-> i],
              LAMBDA i : GroupKey(d[i]) = k /\ d[i].boxId = d[Len(d)].boxId)

\* positions (1-based) of the rows of one group, in the order of df
GroupRows(d, k) ==
    SelectSeq([i \in 1..Len(d) |-> i], LAMBDA i : GroupKey(d[i]) = k)

\* variant: rolling(3, min_periods=1), a mean from the first observation on
RollingMean_minPeriods(d, rows, j) ==
    LET n0   == IF j < window THEN 1 ELSE j - window + 1
        vals == [n \in 1..(j - n0 + 1) |-> d[rows[n0 + n - 1]].value]
    IN  IF \E n \in DOMAIN vals : vals[n] = NaN THEN NaN
        ELSE IF Len(vals) = 1 THEN vals[1]
        ELSE IF Len(vals) = 2 THEN (vals[1] + vals[2]) \div 2
        ELSE (vals[1] + vals[2] + vals[3]) \div window

\* rolling(3)['value'].mean() at position j of a group: NaN until the window
\* holds 3 observations, NaN values not counting as observations
RollingMean(d, rows, j) ==
    IF j < window THEN NaN
    ELSE LET vals == [n \in 1..window |-> d[rows[j - window + n]].value]
         IN  IF \E n \in 1..window : vals[n] = NaN THEN NaN
             ELSE (vals[1] + vals[2] + vals[3]) \div window

\* the rows one group contributes: lat, lon, level_2 (the df index), value
GroupRolling(d, k) ==
    LET rows == GroupRows(d, k)
    IN  [j \in 1..Len(rows) |->
            [lat |-> k[1], lon |-> k[2], level_2 |-> rows[j] - 1,
             value |-> RollingMean(d, rows, j)]]

RECURSIVE ConcatGroups(_, _)
ConcatGroups(d, keys) ==
    IF keys = <<>> THEN <<>>
    ELSE GroupRolling(d, Head(keys)) \o ConcatGroups(d, Tail(keys))

\* .reset_index(): the rows get the labels 0, 1, 2, ... in table order
reset_index(t) ==
    [i \in 1..Len(t) |->
        [index |-> i - 1, lat |-> t[i].lat, lon |-> t[i].lon,
         level_2 |-> t[i].level_2, value |-> t[i].value]]

\* variant: the dropna is left out
dropna_omitted(t) == t

\* .dropna(inplace=True): rows holding a NaN go, the others keep their label
dropna(t) == SelectSeq(t, LAMBDA r : r.value # NaN)

rolling_average(d) == dropna(reset_index(ConcatGroups(d, SortedKeys(GroupKeys(d)))))

\* variant: the rows are matched on the latitude alone
CurrentRows_latOnly(t, current_lat, current_lon) ==
    SelectSeq(t, LAMBDA r : r.lat = current_lat)

\* rolling_average[(lat == current_lat) & (lon == current_lon)]
CurrentRows(t, current_lat, current_lon) ==
    SelectSeq(t, LAMBDA r : r.lat = current_lat /\ r.lon = current_lon)

\* rolling_average.loc[label, 'value']
loc(t, label) == (CHOOSE i \in DOMAIN t : t[i].index = label)

\* round(pm_value, 2) on thousandths; no mean of the input set ends in 5
round2(x) == ((x + 5) \div 10) * 10

\* variant: >= in place of >
Exceeds_orEqual(pm, threshold) == pm >= threshold * 1000

\* pm_value > pm_threshold, the threshold being in whole units
Exceeds(pm, threshold) == pm > threshold * 1000

warning_event_response(timestamp, pm, sensebox) ==
    <<sensebox, timestamp, "!!! WARNING !!! PM 2.5 threshold exceeded with 3-Day Average of", pm>>

SafeLine(timestamp, sensebox) ==
    <<sensebox, timestamp, "Message Received PM 2.5 Levels are safe">>

\* variant: timestamp and sensebox are read from the df row the selected
\* rolling row belongs to (its level_2) instead of the last df row
event_notification_windowRow(d, threshold) ==
    LET t        == rolling_average(d)
        current  == d[Len(d)]
        mine     == CurrentRows(t, current.lat, current.lon)
    IN  IF mine = <<>>
        THEN [printed |-> <<>>, pm_value |-> NaN]
        ELSE LET rolling_average_index == mine[Len(mine)].index
                 pm        == t[loc(t, rolling_average_index)].value
                 source    == d[t[loc(t, rolling_average_index)].level_2 + 1]
                 timestamp == source.day
                 sensebox  == source.boxId
             IN  IF Exceeds(pm, threshold)
                 THEN [printed |-> <<warning_event_response(timestamp, round2(pm), sensebox)>>,
                       pm_value |-> pm]
                 ELSE [printed |-> <<SafeLine(timestamp, sensebox)>>, pm_value |-> pm]

\* What one call prints and the pm_value it computed.  The call raises
\* IndexError at .index[-1] when no row of the current key is left; the bare
\* except swallows it: nothing is printed and pm_value is never bound (NaN).
event_notification(d, threshold) ==
    LET t        == rolling_average(d)
        current  == d[Len(d)]
        mine     == CurrentRows(t, current.lat, current.lon)
    IN  IF mine = <<>>
        THEN [printed |-> <<>>, pm_value |-> NaN]
        ELSE LET rolling_average_index == mine[Len(mine)].index
                 pm        == t[loc(t, rolling_average_index)].value
                 timestamp == current.day
                 sensebox  == current.boxId
             IN  IF Exceeds(pm, threshold)
                 THEN [printed |-> <<warning_event_response(timestamp, round2(pm), sensebox)>>,
                       pm_value |-> pm]
                 ELSE [printed |-> <<SafeLine(timestamp, sensebox)>>, pm_value |-> pm]

(***************************************************************************)
(* Decoding of a message value (consumer loop, else branch).               *)
(***************************************************************************)
\* The exception the decoding statements raise, "none" when they succeed.
\* The dict literal evaluates input[key][0], [1], [2], float(key), [3] in
\* that order.
DecodeError(p) ==
    IF ~p.json THEN "JSONDecodeError"
    ELSE IF p.entries = <<>> THEN "IndexError"
    ELSE LET key  == p.entries[1][1]
             list == p.entries[1][2]
         IN  IF Len(list) < 3 THEN "IndexError"
             ELSE IF ~IsNumeric(key) THEN "ValueError"
             ELSE IF Len(list) < 4 THEN "IndexError"
             ELSE "none"

\* variant: the dict is built from the last key of the mapping
stream_lastKey(p) ==
    LET key  == p.entries[Len(p.entries)][1]
        list == p.entries[Len(p.entries)][2]
    IN  [lat |-> list[1], lon |-> list[2], day |-> list[3],
         value |-> float(key), boxId |-> list[4]]

\* the dict `stream`
stream(p) ==
    LET key  == p.entries[1][1]
        list == p.entries[1][2]
    IN  [lat |-> list[1], lon |-> list[2], day |-> list[3],
         value |-> float(key), boxId |-> list[4]]

(***************************************************************************)
(* The consumer loop.                                                      *)
(***************************************************************************)
Init ==
    /\ df = <<>>
    /\ out = <<>>
    /\ stderr = <<>>
    /\ msg = NoMsg
    /\ pc = "poll"
    /\ raised = "none"
    /\ pm_value = NaN
    /\ polls = 0
    /\ commits = 0
    /\ closes = 0
    /\ sigints = 0

\* variant: continue in place of break
PollNone_continue ==
    /\ pc = "poll"
    /\ msg' = NoMsg
    /\ pc' = "poll"
    /\ UNCHANGED <<df, out, stderr, raised, pm_value, polls, commits, closes, sigints>>

\* consumer.poll(timeout=10) returns None: break
PollNone ==
    /\ pc = "poll"
    /\ msg' = NoMsg
    /\ pc' = "finally"
    /\ UNCHANGED <<df, out, stderr, raised, pm_value, polls, commits, closes, sigints>>

\* variant: the unknown-topic branch is missing, so that code falls through
\* to the raise
PollTransient_eofOnly ==
    /\ pc = "poll"
    /\ polls < MaxPolls
    /\ \E code \in TransientCodes :
        /\ msg' = [error |-> code, value |-> NotJson]
        /\ IF code = "_PARTITION_EOF"
           THEN stderr' = Append(stderr, code) /\ pc' = "commit" /\ UNCHANGED raised
           ELSE raised' = "KafkaException" /\ pc' = "finally" /\ UNCHANGED stderr
    /\ polls' = polls + 1
    /\ UNCHANGED <<df, out, pm_value, commits, closes, sigints>>

\* variant: the transient branch ends with `continue`, skipping the commit
PollTransient_skipCommit ==
    /\ pc = "poll"
    /\ polls < MaxPolls
    /\ \E code \in TransientCodes :
        /\ msg' = [error |-> code, value |-> NotJson]
        /\ stderr' = Append(stderr, code)
    /\ polls' = polls + 1
    /\ pc' = "poll"
    /\ UNCHANGED <<df, out, raised, pm_value, commits, closes, sigints>>

\* msg.error() is end-of-partition or unknown-topic: write to stderr, go on
PollTransient ==
    /\ pc = "poll"
    /\ polls < MaxPolls
    /\ \E code \in TransientCodes :
        /\ msg' = [error |-> code, value |-> NotJson]
        /\ stderr' = Append(stderr, code)
    /\ polls' = polls + 1
    /\ pc' = "commit"
    /\ UNCHANGED <<df, out, raised, pm_value, commits, closes, sigints>>

\* variant: the error is written to stderr and the loop goes on
PollFatal_logged ==
    /\ pc = "poll"
    /\ polls < MaxPolls
    /\ \E code \in FatalCodes :
        /\ msg' = [error |-> code, value |-> NotJson]
        /\ stderr' = Append(stderr, code)
    /\ polls' = polls + 1
    /\ pc' = "commit"
    /\ UNCHANGED <<df, out, raised, pm_value, commits, closes, sigints>>

\* any other msg.error(): raise KafkaException
PollFatal ==
    /\ pc = "poll"
    /\ polls < MaxPolls
    /\ \E code \in FatalCodes : msg' = [error |-> code, value |-> NotJson]
    /\ polls' = polls + 1
    /\ raised' = "KafkaException"
    /\ pc' = "finally"
    /\ UNCHANGED <<df, out, stderr, pm_value, commits, closes, sigints>>

\* variant: the message is acknowledged as soon as it is received
PollMessage_ackOnReceipt ==
    /\ pc = "poll"
    /\ polls < MaxPolls
    /\ \E p \in Payloads : msg' = [error |-> "", value |-> p]
    /\ polls' = polls + 1
    /\ commits' = commits + 1
    /\ pc' = "decode"
    /\ UNCHANGED <<df, out, stderr, raised, pm_value, closes, sigints>>

\* a message without error: on to decoding
PollMessage ==
    /\ pc = "poll"
    /\ polls < MaxPolls
    /\ \E p \in Payloads : msg' = [error |-> "", value |-> p]
    /\ polls' = polls + 1
    /\ pc' = "decode"
    /\ UNCHANGED <<df, out, stderr, raised, pm_value, commits, closes, sigints>>

\* variant: a row already in the table is not appended again
Decode_dedup ==
    /\ pc = "decode"
    /\ IF DecodeError(msg.value) = "none"
       THEN /\ df' = IF \E i \in DOMAIN df : df[i] = stream(msg.value)
                     THEN df ELSE Append(df, stream(msg.value))
            /\ pc' = "notify"
            /\ UNCHANGED raised
       ELSE /\ raised' = DecodeError(msg.value)
            /\ pc' = "finally"
            /\ UNCHANGED df
    /\ UNCHANGED <<out, stderr, msg, pm_value, polls, commits, closes, sigints>>

\* variant: the decoding sits in a try whose except drops the message
Decode_caught ==
    /\ pc = "decode"
    /\ IF DecodeError(msg.value) = "none"
       THEN /\ df' = Append(df, stream(msg.value))
            /\ pc' = "notify"
       ELSE /\ pc' = "commit"
            /\ UNCHANGED df
    /\ UNCHANGED <<out, stderr, msg, raised, pm_value, polls, commits, closes, sigints>>

\* variant: the row is appended before float(key) is evaluated, with the
\* value still missing
Decode_appendFirst ==
    /\ pc = "decode"
    /\ IF DecodeError(msg.value) = "none"
       THEN /\ df' = Append(df, stream(msg.value))
            /\ pc' = "notify"
            /\ UNCHANGED raised
       ELSE /\ raised' = DecodeError(msg.value)
            /\ pc' = "finally"
            /\ df' = IF DecodeError(msg.value) = "ValueError" /\ Len(msg.value.entries[1][2]) >= 4
                     THEN LET list == msg.value.entries[1][2]
                          IN  Append(df, [lat |-> list[1], lon |-> list[2], day |-> list[3],
                                          value |-> NaN, boxId |-> list[4]])
                     ELSE df
    /\ UNCHANGED <<out, stderr, msg, pm_value, polls, commits, closes, sigints>>

\* variant: the table keeps only its 3 newest rows
Decode_bounded ==
    /\ pc = "decode"
    /\ IF DecodeError(msg.value) = "none"
       THEN /\ df' = IF Len(df) >= 3
                     THEN Append(Tail(df), stream(msg.value))
                     ELSE Append(df, stream(msg.value))
            /\ pc' = "notify"
            /\ UNCHANGED raised
       ELSE /\ raised' = DecodeError(msg.value)
            /\ pc' = "finally"
            /\ UNCHANGED df
    /\ UNCHANGED <<out, stderr, msg, pm_value, polls, commits, closes, sigints>>

\* variant: no finally clause, a decoding exception leaves the cell at once
Decode_noFinally ==
    /\ pc = "decode"
    /\ IF DecodeError(msg.value) = "none"
       THEN /\ df' = Append(df, stream(msg.value))
            /\ pc' = "notify"
            /\ UNCHANGED raised
       ELSE /\ raised' = DecodeError(msg.value)
            /\ pc' = "done"
            /\ UNCHANGED df
    /\ UNCHANGED <<out, stderr, msg, pm_value, polls, commits, closes, sigints>>

\* json.loads ... df = df.append(stream, ignore_index = True)
Decode ==
    /\ pc = "decode"
    /\ IF DecodeError(msg.value) = "none"
       THEN /\ df' = Append(df, stream(msg.value))
            /\ pc' = "notify"
            /\ UNCHANGED raised
       ELSE /\ raised' = DecodeError(msg.value)
            /\ pc' = "finally"
            /\ UNCHANGED df
    /\ UNCHANGED <<out, stderr, msg, pm_value, polls, commits, closes, sigints>>

\* variant: a call that printed nothing takes the appended row back
Notify_rollback ==
    /\ pc = "notify"
    /\ LET r == event_notification(df, pm_threshold)
       IN  /\ out' = out \o r.printed
           /\ pm_value' = r.pm_value
           /\ df' = IF r.printed = <<>> THEN SubSeq(df, 1, Len(df) - 1) ELSE df
    /\ pc' = "commit"
    /\ UNCHANGED <<stderr, msg, raised, polls, commits, closes, sigints>>

\* event_notification(df, pm_threshold)
Notify ==
    /\ pc = "notify"
    /\ LET r == event_notification(df, pm_threshold)
       IN  /\ out' = out \o r.printed
           /\ pm_value' = r.pm_value
    /\ pc' = "commit"
    /\ UNCHANGED <<df, stderr, msg, raised, polls, commits, closes, sigints>>

\* consumer.commit()
Commit ==
    /\ pc = "commit"
    /\ commits' = commits + 1
    /\ pc' = "poll"
    /\ UNCHANGED <<df, out, stderr, msg, raised, pm_value, polls, closes, sigints>>

\* KeyboardInterrupt raised in the loop body, outside event_notification:
\* except KeyboardInterrupt: pass
Interrupt ==
    /\ pc \in {"poll", "decode", "notify", "commit"}
    /\ sigints < MaxInterrupts
    /\ sigints' = sigints + 1
    /\ raised' = "KeyboardInterrupt"
    /\ pc' = "finally"
    /\ UNCHANGED <<df, out, stderr, msg, pm_value, polls, commits, closes>>

\* KeyboardInterrupt raised while event_notification runs: its bare except
\* swallows it.  The signal lands either before the print or after it.
InterruptInNotification ==
    /\ pc = "notify"
    /\ sigints < MaxInterrupts
    /\ sigints' = sigints + 1
    /\ LET r == event_notification(df, pm_threshold)
       IN  \/ /\ out' = out
              /\ pm_value' = NaN
           \/ /\ out' = out \o r.printed
              /\ pm_value' = r.pm_value
    /\ pc' = "commit"
    /\ UNCHANGED <<df, stderr, msg, raised, polls, commits, closes>>

\* finally: consumer.close()
Close ==
    /\ pc = "finally"
    /\ closes' = closes + 1
    /\ pc' = "done"
    /\ UNCHANGED <<df, out, stderr, msg, raised, pm_value, polls, commits, sigints>>
(***************************************************************************)
(* The presentation cells, run on the accumulated df after the loop.       *)
(***************************************************************************)
\* gpd.points_from_xy(df.lon, df.lat)
geometry(row) == [x |-> row.lon, y |-> row.lat]

\* gdf['valid']: the value is not NaN
valid(row) == row.value # NaN

\* valid_boxes['day'].max(): NaN when no row is valid
recent_date(d) ==
    LET days == {d[i].day : i \in {j \in DOMAIN d : valid(d[j])}}
    IN  IF days = {} THEN NaN
        ELSE CHOOSE m \in days : \A x \in days : x <= m

\* the rows of recent_date, first row of every boxId, reduced to geometry
active_boxes(d) ==
    LET rows == SelectSeq([i \in 1..Len(d) |-> i],
                          LAMBDA i : d[i].day = recent_date(d))
        kept == SelectSeq(rows, LAMBDA i :
                    ~\E j \in 1..(i - 1) :
                        d[j].day = recent_date(d) /\ d[j].boxId = d[i].boxId)
    IN  [n \in 1..Len(kept) |-> geometry(d[kept[n]])]

\* the rows that are not valid, first row of every geometry, reduced to it
inactive_boxes(d) ==
    LET kept == SelectSeq([i \in 1..Len(d) |-> i], LAMBDA i :
                    /\ ~valid(d[i])
                    /\ ~\E j \in 1..(i - 1) :
                          ~valid(d[j]) /\ geometry(d[j]) = geometry(d[i]))
    IN  [n \in 1..Len(kept) |-> geometry(d[kept[n]])]


Next ==
    \/ PollNone
    \/ PollTransient
    \/ PollFatal
    \/ PollMessage
    \/ Decode
    \/ Notify
    \/ Commit
    \/ Interrupt
    \/ InterruptInNotification
    \/ Close

Spec == Init /\ [][Next]_vars

\* The same program with a source that falls silent after LivePolls
\* deliveries.  The loop is a running program: it takes its next step.  The
\* interrupt is the user's doing and is not forced.
Budget == polls' <= LivePolls

LoopStep ==
    \/ PollNone
    \/ PollTransient /\ Budget
    \/ PollFatal /\ Budget
    \/ PollMessage /\ Budget
    \/ Decode
    \/ Notify
    \/ Commit
    \/ Close

LiveNext ==
    \/ PollNone
    \/ PollTransient /\ Budget
    \/ PollFatal /\ Budget
    \/ PollMessage /\ Budget
    \/ Decode
    \/ Notify
    \/ Commit
    \/ Interrupt
    \/ InterruptInNotification
    \/ Close

LiveSpec == Init /\ [][LiveNext]_vars /\ WF_vars(LoopStep)

(***************************************************************************)
(* Vocabulary of the properties.                                           *)
(***************************************************************************)
Last(s) == s[Len(s)]

\* the rows of one location key, in arrival order
OnlyKey(d, k) == SelectSeq(d, LAMBDA r : r.lat = k[1] /\ r.lon = k[2])

KeyCount(d, k) == Len(OnlyKey(d, k))

\* the key of the reading just appended
CurrentKey == <<Last(df).lat, Last(df).lon>>

\* arithmetic mean of the last three values of a sequence of rows; a NaN
\* among them leaves no mean
MeanOfLastThree(rows) ==
    LET n == Len(rows)
        a == rows[n - 2].value
        b == rows[n - 1].value
        c == rows[n].value
    IN  IF a = NaN \/ b = NaN \/ c = NaN THEN NaN ELSE (a + b + c) \div 3

IsWarning(line) == Len(line) = 4 /\ line[3] = "!!! WARNING !!! PM 2.5 threshold exceeded with 3-Day Average of"

IsSafe(line) == Len(line) = 3 /\ line[3] = "Message Received PM 2.5 Levels are safe"

DecodeErrors == {"JSONDecodeError", "IndexError", "ValueError"}

\* a step of the notification stage, interrupted or not
NotificationStep == pc = "notify" /\ pc' = "commit"

(***************************************************************************)
(* C1  Warm-up: an ingest that leaves the key of the reading just appended *)
(* with fewer than 3 readings prints nothing, neither the safe line nor    *)
(* the WARNING line, whatever the other keys hold.                         *)
(***************************************************************************)
C1_WarmupSilent ==
    [][(pc = "notify" /\ KeyCount(df, CurrentKey) < 3) => out' = out]_vars

\* three readings of key (1,1) have produced a line; a first reading of key
\* (1,2) then went through the notification stage without a second line
C1_Witness ==
    /\ pc = "commit"
    /\ sigints = 0
    /\ Len(df) = 4
    /\ KeyCount(df, <<1, 1>>) = 3
    /\ CurrentKey = <<1, 2>>
    /\ Len(out) = 1

(***************************************************************************)
(* C2  Rolling mean: whenever the notification stage runs for a key with   *)
(* at least 3 readings, the mean it uses is the arithmetic mean of the 3   *)
(* values of that key that arrived last.                                   *)
(***************************************************************************)
C2_MeanOfMostRecentThree ==
    [][(Notify /\ KeyCount(df, CurrentKey) >= 3)
          => pm_value' = MeanOfLastThree(OnlyKey(df, CurrentKey))]_vars

(***************************************************************************)
(* C3  Threshold test: a notification stage that prints, prints the        *)
(* WARNING line if the mean is strictly greater than 20 and the safe line  *)
(* otherwise; a mean of exactly 20 is safe.                                *)
(***************************************************************************)
C3_StrictThreshold ==
    [][(Notify /\ out' # out)
          => /\ Len(out') = Len(out) + 1
             /\ pm_value' # NaN
             /\ IF pm_value' > 20000 THEN IsWarning(Last(out')) ELSE IsSafe(Last(out'))]_vars

\* the mean is exactly 20.000 and the line printed for it is the safe line
C3_Witness ==
    /\ pc = "commit"
    /\ sigints = 0
    /\ Len(df) = 3
    /\ pm_value = 20000
    /\ Len(out) = 1
    /\ IsSafe(out[1])

(***************************************************************************)
(* C4  Independence across keys: what the notification stage prints and    *)
(* the mean it uses are what it would print and use had only the readings  *)
(* of the current key (same lat and same lon) ever been ingested.          *)
(***************************************************************************)
C4_KeysIndependent ==
    [][Notify =>
          LET alone == event_notification(OnlyKey(df, CurrentKey), pm_threshold)
          IN  /\ out' = out \o alone.printed
              /\ pm_value' = alone.pm_value]_vars

\* key (1,1) got a decision on its third reading, with a reading of another
\* key ingested in between
C4_Witness ==
    /\ pc = "commit"
    /\ sigints = 0
    /\ Len(df) = 4
    /\ KeyCount(df, <<1, 1>>) = 3
    /\ CurrentKey = <<1, 1>>
    /\ \E i \in 1..3 : <<df[i].lat, df[i].lon>> # <<1, 1>>
    /\ Len(out) = 1

(***************************************************************************)
(* C5  History is append-only: every step leaves the table as it was or    *)
(* adds one row at its end; decoding a message that decodes adds exactly   *)
(* the row of that message, also when an identical row is already there.   *)
(***************************************************************************)
IsPrefix(s, t) == Len(s) <= Len(t) /\ \A i \in 1..Len(s) : t[i] = s[i]

C5_AppendOnly ==
    [][/\ IsPrefix(df, df')
       /\ Len(df') <= Len(df) + 1
       /\ (Decode /\ msg.value \in WellFormed \cup TwoKeys)
             => /\ Len(df') = Len(df) + 1
                /\ Last(df') = stream(msg.value)]_vars

\* the same message three times over: three rows, and the third one has
\* completed a window and produced a line
C5_Witness ==
    /\ pc = "commit"
    /\ sigints = 0
    /\ Len(df) = 3
    /\ df[1] = df[2]
    /\ df[2] = df[3]
    /\ Len(out) = 1

C7_DecodeFailureNoEffect ==
    [][((pc = "poll" /\ msg'.value \in Malformed /\ polls' = polls + 1 /\ msg'.error = "")
        \/ (pc = "decode" /\ msg.value \in Malformed)
        \/ raised \in DecodeErrors)
          => (df' = df /\ out' = out)]_vars

\* a full window had been printed for, then a message whose list is too
\* short ended the run with table and output as they were
C7_Witness ==
    /\ pc = "done"
    /\ raised = "IndexError"
    /\ msg.value = Json(<< <<"24.012", <<1, 1, 1>> >> >>)
    /\ Len(df) = 3
    /\ Len(out) = 1
    /\ polls = 4

(***************************************************************************)
(* C8  Transient source errors: a poll that returns end-of-partition or    *)
(* unknown-topic writes one line to stderr and goes to the commit, and the *)
(* commit leads to the next poll; table and printed lines are unchanged.   *)
(***************************************************************************)
C8_TransientErrorContinues ==
    [][/\ (polls' = polls + 1 /\ msg'.error \in TransientCodes)
             => /\ pc' = "commit"
                /\ raised' = "none"
                /\ stderr' = Append(stderr, msg'.error)
                /\ df' = df /\ out' = out
       /\ (pc = "commit" /\ msg.error \in TransientCodes /\ sigints' = sigints)
             => /\ pc' = "poll"
                /\ df' = df /\ out' = out]_vars

\* after an unknown-topic event the loop was back at the poll and went on to
\* receive and process a reading
C8_Witness ==
    /\ pc = "commit"
    /\ stderr = <<"UNKNOWN_TOPIC_OR_PART">>
    /\ msg.error = ""
    /\ Len(df) = 1
    /\ commits = 1
    /\ raised = "none"

(***************************************************************************)
(* C9  Fatal source error: a poll that returns any other error raises      *)
(* KafkaException out of the loop; the only thing that happens afterwards  *)
(* is the one close of the consumer: no poll, append, print or commit.     *)
(***************************************************************************)
C9_FatalErrorEndsLoop ==
    [][/\ (polls' = polls + 1 /\ msg'.error \notin TransientCodes \cup {""})
             => /\ pc' = "finally"
                /\ raised' = "KafkaException"
                /\ <<df, out, commits, closes>>' = <<df, out, commits, closes>>
       /\ raised = "KafkaException"
             => /\ pc = "finally" /\ pc' = "done"
                /\ closes' = closes + 1
                /\ <<df, out, polls, commits, raised>>' = <<df, out, polls, commits, raised>>]_vars

\* readings had been processed when the fatal error came; the consumer is
\* closed and the exception is still raised
C9_Witness ==
    /\ pc = "done"
    /\ raised = "KafkaException"
    /\ closes = 1
    /\ Len(df) = 2
    /\ commits = 2
    /\ polls = 3

(***************************************************************************)
(* C10  Idle-timeout termination: a poll that returns nothing leaves the   *)
(* loop without append, print or commit, and the consumer is then closed;  *)
(* once the source has fallen silent the loop ends and the consumer is     *)
(* closed.                                                                 *)
(***************************************************************************)
SourceSilent == polls = LivePolls

C10_IdleTimeoutTerminates ==
    /\ [][/\ (pc = "poll" /\ polls' = polls /\ sigints' = sigints)
                => /\ pc' = "finally"
                   /\ <<df, out, commits, closes, raised>>' = <<df, out, commits, closes, raised>>
          /\ (pc = "finally" /\ raised = "none")
                => /\ pc' = "done"
                   /\ closes' = closes + 1
                   /\ <<df, out, commits, polls>>' = <<df, out, commits, polls>>]_vars
    /\ (SourceSilent ~> (pc = "done" /\ closes = 1))

\* the source fell silent after its last delivery, the next poll returned
\* nothing and the consumer was closed without a further commit
C10_Witness ==
    /\ pc = "done"
    /\ raised = "none"
    /\ msg = NoMsg
    /\ SourceSilent
    /\ commits = polls
    /\ closes = 1
    /\ Len(df) = polls

(***************************************************************************)
(* C11  Cooperative cancellation: once the reading of the current message  *)
(* is in the table, the notification stage is carried out next; the loop   *)
(* is never left with the reading appended and its notification and commit *)
(* still to come.                                                          *)
(***************************************************************************)
C11_InFlightIngestCompletes ==
    [][pc = "notify" => pc' = "commit"]_vars

(***************************************************************************)
(* C12  Stop signal is honoured: every KeyboardInterrupt that is delivered *)
(* takes the loop to its exit (and from there to the close); none is       *)
(* absorbed with the loop going on.                                        *)
(***************************************************************************)
C12_StopSignalHonoured ==
    [][sigints' = sigints + 1 => (pc' = "finally" /\ raised' = "KeyboardInterrupt")]_vars

(***************************************************************************)
(* C13  Acknowledgment ordering: a message is polled, its row appended,    *)
(* the notification stage run, and only then is it committed; the next     *)
(* poll comes only after that commit.  While a polled message is being     *)
(* processed the commits lag the polls by one, and at every poll each      *)
(* earlier poll has been committed.                                        *)
(***************************************************************************)
C13_AckOrdering ==
    /\ [](/\ pc = "poll" => commits = polls
          /\ pc \in {"decode", "notify", "commit"} => commits = polls - 1)
    /\ [][/\ polls' # polls => (pc = "poll" /\ polls' = polls + 1)
          /\ df' # df => (pc = "decode" /\ pc' = "notify")
          /\ out' # out => (pc = "notify" /\ pc' = "commit")
          /\ (pc' = "commit" /\ pc # "commit" /\ msg'.error = "") => pc = "notify"
          /\ commits' # commits => (pc = "commit" /\ pc' = "poll" /\ commits' = commits + 1)
          /\ (pc' = "poll" /\ pc # "poll") => commits' = commits + 1]_vars

\* two messages have each been polled, appended, notified and committed,
\* and the loop is about to poll a third time
C13_Witness ==
    /\ pc = "poll"
    /\ sigints = 0
    /\ polls = 2
    /\ commits = 2
    /\ Len(df) = 2

\* some three consecutive rows (of one key, in arrival order) hold no NaN
HasCleanWindow(rows) ==
    \E j \in 3..Len(rows) : \A n \in (j - 2)..j : rows[n].value # NaN

Relabel(d, b) == [i \in 1..Len(d) |-> [d[i] EXCEPT !.boxId = b]]

(***************************************************************************)
(* C16  The windows are formed by (lat, lon) only.  The decision of a      *)
(* notification stage is the same when every row carries one and the same  *)
(* boxId (rows of one lat/lon with different boxIds share a window), and   *)
(* the same when the rows of all other lat/lon pairs are removed (rows of  *)
(* another lat/lon never enter the window, whatever their boxId); the      *)
(* boxId shows only as the label of the printed line, taken from the       *)
(* newest row.                                                             *)
(***************************************************************************)
C16_GroupingIgnoresBoxId ==
    [][Notify =>
          /\ \A b \in {"a", "b"} :
                event_notification(Relabel(df, b), pm_threshold).pm_value = pm_value'
          /\ event_notification(OnlyKey(df, CurrentKey), pm_threshold).pm_value
                = pm_value'
          /\ out' # out => Last(out')[1] = Last(df).boxId]_vars

\* three readings of lat/lon (1,1), two labelled "a" and the newest "b",
\* formed one window and the line carries the label "b"
C16_Witness ==
    /\ pc = "commit"
    /\ sigints = 0
    /\ Len(df) = 3
    /\ KeyCount(df, <<1, 1>>) = 3
    /\ df[1].boxId = "a"
    /\ df[2].boxId = "a"
    /\ df[3].boxId = "b"
    /\ Len(out) = 1
    /\ out[1][1] = "b"

\* a notification stage in which event_notification's except clause ran: the
\* IndexError of a key without a finished window, or a KeyboardInterrupt
Swallowed ==
    /\ NotificationStep
    /\ \/ sigints' = sigints + 1
       \/ event_notification(df, pm_threshold).printed = <<>>

ShownKeys(boxes) == {<<boxes[n].y, boxes[n].x>> : n \in DOMAIN boxes}

\* the most recent day among all rows of a non-empty table
NewestDay(d) == CHOOSE m \in {d[i].day : i \in DOMAIN d} :
                    \A i \in DOMAIN d : d[i].day <= m

(***************************************************************************)
(* C19  When the loop has ended, the active table shows exactly the keys   *)
(* that have a reading on the most recent day of the whole df, and the     *)
(* inactive table shows exactly the other keys of df, each once: the two   *)
(* are disjoint and cover every key of df.                                 *)
(***************************************************************************)
C19_SnapshotPartitionsKeys ==
    (pc = "done" /\ df # <<>>) =>
        LET act == ShownKeys(active_boxes(df))
            ina == ShownKeys(inactive_boxes(df))
        IN  /\ act = {k \in GroupKeys(df) :
                         \E i \in DOMAIN df :
                             GroupKey(df[i]) = k /\ df[i].day = NewestDay(df)}
            /\ ina = GroupKeys(df) \ act
            /\ Cardinality(ina) = Len(inactive_boxes(df))

(***************************************************************************)
(* C20  A decode stage that succeeds adds exactly one row to df, after the *)
(* rows already there: its value is float of the first key of the mapping, *)
(* its lat, lon, day and boxId are elements 0, 1, 2 and 3 of the list      *)
(* under that key.  Further keys of the mapping leave no trace.  The stage *)
(* succeeds, unless interrupted, whenever no decoding statement raises.    *)
(***************************************************************************)
C20_ParseContract ==
    [][/\ (pc = "decode" /\ pc' = "notify") =>
            LET first == msg.value.entries[1]
                key   == first[1]
                list  == first[2]
            IN  /\ Len(df') = Len(df) + 1
                /\ SubSeq(df', 1, Len(df)) = df
                /\ Last(df').value = float(key)
                /\ Last(df').lat   = list[1]
                /\ Last(df').lon   = list[2]
                /\ Last(df').day   = list[3]
                /\ Last(df').boxId = list[4]
                /\ DOMAIN Last(df') = {"lat", "lon", "day", "value", "boxId"}
       /\ (pc = "decode" /\ sigints' = sigints /\ DecodeError(msg.value) = "none")
            => pc' = "notify"]_vars

\* a mapping with two keys was decoded: the one row added is that of its
\* first key, "24.012" with the list [1, 1, 2, "b"]
C20_Witness ==
    /\ pc = "notify"
    /\ msg.value \in TwoKeys
    /\ Len(df) = 1
    /\ df[1] = [lat |-> 1, lon |-> 1, day |-> 2, value |-> 24012, boxId |-> "b"]

(***************************************************************************)
(* C21  No stale means: a notification stage that prints a line does so    *)
(* for a window that ends at the reading just appended, so the 3 readings  *)
(* of the current lat/lon that arrived last hold no NaN and the mean the   *)
(* stage decided with is their mean.                                       *)
(***************************************************************************)
C21_NoStaleMean ==
    [][(NotificationStep /\ out' # out) =>
          /\ KeyCount(df, CurrentKey) >= window
          /\ MeanOfLastThree(OnlyKey(df, CurrentKey)) # NaN
          /\ pm_value' = MeanOfLastThree(OnlyKey(df, CurrentKey))]_vars

(***************************************************************************)
(* C22  Close on every exit path: the consumer is closed at most once, and *)
(* the cell is finished exactly when it has been closed once.  Whatever    *)
(* made the loop end (poll timeout, KafkaException, an exception of the    *)
(* decoding statements, KeyboardInterrupt), the next step is the close,    *)
(* and it changes nothing else.  After the close nothing is polled,        *)
(* appended, printed or committed.                                         *)
(***************************************************************************)
C22_ClosedOnceOnEveryExit ==
    /\ [](/\ closes \in {0, 1}
          /\ pc = "done" <=> closes = 1
          /\ pc \in {"finally", "done"} =>
                raised \in {"none", "KafkaException", "KeyboardInterrupt"}
                              \cup DecodeErrors)
    /\ [][/\ pc = "finally" =>
                /\ closes' = closes + 1
                /\ pc' = "done"
                /\ UNCHANGED <<df, out, stderr, msg, raised, polls, commits>>
          /\ closes' # closes => pc = "finally"
          /\ closes = 1 =>
                UNCHANGED <<df, out, stderr, msg, polls, commits, closes, pc>>]_vars

\* the loop was left by a decoding exception after one message had been
\* processed, and the consumer has been closed
C22_Witness ==
    /\ pc = "done"
    /\ closes = 1
    /\ raised \in DecodeErrors
    /\ polls = 2
    /\ commits = 1
    /\ Len(df) = 1

(***************************************************************************)
(* C23  What gets acknowledged: commit is called once per iteration that   *)
(* runs to its end, for a processed message and for a transient error      *)
(* alike, so at the top of the loop there are as many commits as polls     *)
(* that returned something.  A commit happens only as the last statement   *)
(* of an iteration in which nothing was raised.  When the loop has ended   *)
(* by a poll timeout every returned poll has been committed; when it has   *)
(* ended by a KafkaException or by an exception of the decoding statements *)
(* the poll of that iteration has not been, and never will be, committed.  *)
(***************************************************************************)
C23_CommitPerCompletedIteration ==
    /\ [](/\ pc = "poll" => commits = polls
          /\ (pc \in {"finally", "done"} /\ raised = "none") => commits = polls
          /\ (pc \in {"finally", "done"}
                /\ raised \in DecodeErrors \cup {"KafkaException"})
                => commits = polls - 1)
    /\ [][/\ commits' # commits =>
                /\ pc = "commit"
                /\ raised = "none"
                /\ commits' = commits + 1
                /\ pc' = "poll"
          /\ (polls' # polls /\ msg'.error \in TransientCodes) => pc' = "commit"
          /\ (pc = "commit" /\ sigints' = sigints) => commits' = commits + 1
          /\ pc' = "finally" => commits' = commits]_vars

\* two iterations ran to their end, one with a message and one with a
\* transient error, and each was committed
C23_Witness ==
    /\ pc = "poll"
    /\ sigints = 0
    /\ polls = 2
    /\ commits = 2
    /\ Len(df) = 1
    /\ Len(stderr) = 1

====
